---------------------------- MODULE Spec2Model ----------------------------
(***************************************************************************)
(* A model of process_sim: the Soave-Redlich-Kwong backend with its        *)
(* single-entry parameter cache (properties.py), the gamma-phi property    *)
(* package built on it (properties.py) and the Stream container (core.py). *)
(*                                                                         *)
(* Numbers.  Python floats are modelled in fixed point:                    *)
(*   - temperatures in K, pressures in bar (A_mix and B_mix depend on the  *)
(*     pressure only through P/Pc), mole fractions in tenths;              *)
(*   - acentric factors, alpha, sqrt(...) in thousandths ("milli");        *)
(*   - A_mix, B_mix in millionths ("micro");                               *)
(*   - imaginary parts of roots in units of 1e-11;                         *)
(*   - Stream mole fractions as c/100 + e*1e-13 (record [c, e]).           *)
(* np.roots is an external numerical routine: its result is an input of    *)
(* the calls that use it, any triple of complex numbers closed under       *)
(* conjugation (the cubic has real coefficients).                          *)
(***************************************************************************)
EXTENDS Integers, Sequences, FiniteSets

VARIABLES
    cache,        \* SoaveRedlichKwongBackend._cache, one dict per backend instance
    call,         \* the last completed call: operation, arguments, outcome
    stream,       \* the Stream object last constructed, or NoStream
    negativeTPD,  \* the states (T, P, x) at which some trial phase has TPD < 0
    instanceOf,   \* thread -> the backend instance it calls
    pc,           \* thread -> its position inside _get_SRK_parameters
    local         \* thread -> the locals of its _get_SRK_parameters call

vars == <<cache, call, stream, negativeTPD, instanceOf, pc, local>>

(***************************************************************************)
(* Bounds of the model.                                                    *)
(***************************************************************************)
MaxRe == 2          \* real parts of roots range over -1 .. MaxRe
NumThreads == 2     \* threads calling the backend concurrently
StreamMaxLen == 2   \* longest Stream composition / component tuple

(***************************************************************************)
(* Program constants.                                                      *)
(***************************************************************************)
ImagTol == 10            \* 1e-10 in units of 1e-11          properties.py:231
AtolUnits == 10          \* atol = 1e-12 in units of 1e-13   core.py:19
RtolUnits == 100000000   \* numpy's default rtol = 1e-5, times |1.0|, in 1e-13
NegTolUnits == 10        \* 1e-12 in units of 1e-13          core.py:23

\* Values of a call: Python's None, or a tagged value.
None == [kind |-> "None"]
Float(v) == [kind |-> "float", v |-> v]
Bool(b) == [kind |-> "bool", b |-> b]

\* No Stream has been constructed yet.
NoStream == [kind |-> "NoStream"]

\* The empty dict of SoaveRedlichKwongBackend.__init__.
EmptyDict == [k \in {} |-> None]

(***************************************************************************)
(* Outcomes of a call: a normal return, or an exception with its Python    *)
(* type and the source line that raises it.                                *)
(***************************************************************************)
Return == [type |-> "return", line |-> 0]
Raise(type, line) == [type |-> type, line |-> line]

----------------------------------------------------------------------------
(***************************************************************************)
(* PureComponentDataBackend: the arrays resolved once at construction.     *)
(* Components (N2, NH3).                                                   *)
(***************************************************************************)
acentric_factor_data == <<37, 253>>              \* milli
critical_temperature_K_data == <<126, 405>>      \* K
critical_pressure_Pa_data == <<34, 113>>         \* bar

NumComponents == Len(critical_temperature_K_data)

(***************************************************************************)
(* Fixed-point helpers.                                                    *)
(***************************************************************************)
RECURSIVE SqrtSearch(_, _, _)
SqrtSearch(n, lo, hi) ==
    IF lo >= hi THEN lo
    ELSE LET mid == (lo + hi + 1) \div 2
         IN  IF mid * mid <= n THEN SqrtSearch(n, mid, hi)
                               ELSE SqrtSearch(n, lo, mid - 1)

\* np.sqrt on a non-negative fixed-point number: floor of the square root.
ISqrt(n) == SqrtSearch(n, 0, 46340)

RECURSIVE DotFrom(_, _, _)
DotFrom(x, v, k) ==
    IF k > Len(x) THEN 0 ELSE x[k] * v[k] + DotFrom(x, v, k + 1)

\* molar_composition @ v, x in tenths: the result in the unit of v.
Dot(x, v) == DotFrom(x, v, 1) \div 10

(***************************************************************************)
(* _get_SRK_parameters: the computation of lines 180-208.                  *)
(***************************************************************************)
\* m = 0.48 + 1.574 * omega - 0.176 * omega**2              (milli)
SoaveM(omega) == 480 + (1574 * omega) \div 1000 - (176 * omega * omega) \div 1000000

\* alpha = (1 + m * (1 - np.sqrt(T_r)))**2, T_r = T / Tc     (milli)
Alpha(T, omega, Tc) ==
    LET sqrtTr == ISqrt((T * 1000000) \div Tc)
        root == 1000 + (SoaveM(omega) * (1000 - sqrtTr)) \div 1000
    IN  (root * root) \div 1000

AlphaVector(T) ==
    [k \in 1..NumComponents |->
        Alpha(T, acentric_factor_data[k], critical_temperature_K_data[k])]

\* Tc * np.sqrt(alpha) / np.sqrt(Pc), per component            (milli)
AttractionTerms(alpha) ==
    [k \in 1..NumComponents |->
        (critical_temperature_K_data[k] * ISqrt(alpha[k] * 1000) * 1000)
            \div ISqrt(critical_pressure_Pa_data[k] * 1000000)]

\* Tc / Pc, per component                                       (milli)
CovolumeTerms ==
    [k \in 1..NumComponents |->
        (critical_temperature_K_data[k] * 1000) \div critical_pressure_Pa_data[k]]

\* A_mix = 0.42747 * P / T**2 * (x @ (Tc * sqrt(alpha) / sqrt(Pc)))**2   (micro)
AMix(T, P, x, alpha) ==
    LET s == Dot(x, AttractionTerms(alpha)) \div 10
    IN  (42747 * ((P * s * s) \div (T * T))) \div 1000

\* B_mix = 0.08664 * P / T * (x @ (Tc / Pc))                             (micro)
BMix(T, P, x) == (8664 * ((P * Dot(x, CovolumeTerms) * 100) \div T)) \div 10000

SRKParams(T, P, x) ==
    LET alpha == AlphaVector(T)
    IN  [alpha |-> alpha,
         A_mix |-> AMix(T, P, x, alpha),
         B_mix |-> BMix(T, P, x),
         Tc    |-> critical_temperature_K_data,
         Pc    |-> critical_pressure_Pa_data]

----------------------------------------------------------------------------
(***************************************************************************)
(* The single-entry cache of _get_SRK_parameters.  A dict is a function    *)
(* from keys to parameter records.                                         *)
(***************************************************************************)
\* cache_key = (temperature_K, pressure_Pa, tuple(molar_composition))
CacheKeyNoPressure(T, P, x) == <<T, x>>
CacheKey(T, P, x) == <<T, P, x>>

\* cache_key in self._cache
CacheHitAlways(c, key) == TRUE
CacheHit(c, key) == key \in DOMAIN c

\* self._cache = {cache_key: params}
StoreEntryAdd(c, key, params) ==
    [k \in DOMAIN c \cup {key} |-> IF k = key THEN params ELSE c[k]]
StoreEntry(c, key, params) == [k \in {key} |-> params]

\* The exceptions of the computation branch.
UnboundAlpha == Raise("UnboundLocalError", 202)
MatmulMismatch == Raise("ValueError", 197)

(***************************************************************************)
(* A call's result: the backend's dict after it, the outcome, the value    *)
(* returned, the parameter record the call obtained (None before that)     *)
(* and the number of stability tests it ran.                               *)
(***************************************************************************)
Result(c, outcome, value, params) ==
    [cache |-> c, outcome |-> outcome, value |-> value, params |-> params,
     stabilityCalls |-> 0]

GetSRKParameters(c, T, P, x) ==
    LET key == CacheKey(T, P, x)
    IN  IF CacheHit(c, key)
        THEN Result(c, Return, c[key], c[key])
        ELSE IF Len(x) > 1
             THEN IF Len(x) # NumComponents
                  THEN Result(c, MatmulMismatch, None, None)
                  ELSE LET params == SRKParams(T, P, x)
                       IN  Result(StoreEntry(c, key, params), Return, params, params)
             ELSE Result(c, UnboundAlpha, None, None)

(***************************************************************************)
(* get_compressibility_factor.  roots is np.roots(coefs): a sequence of    *)
(* complex numbers [re, im].                                               *)
(***************************************************************************)
\* roots[np.abs(roots.imag) < 1e-10].real
IsReal(r) == r.im < ImagTol /\ -r.im < ImagTol
RealRoots(roots) ==
    LET kept == SelectSeq(roots, IsReal)
    IN  [k \in 1..Len(kept) |-> kept[k].re]

\* real_roots[real_roots > 0]
IsPositiveLoose(z) == z >= 0
IsPositive(z) == z > 0
PositiveRoots(roots) == SelectSeq(RealRoots(roots), IsPositive)

SeqMax(s) == CHOOSE z \in {s[k] : k \in 1..Len(s)} : \A k \in 1..Len(s) : s[k] <= z
SeqMin(s) == CHOOSE z \in {s[k] : k \in 1..Len(s)} : \A k \in 1..Len(s) : z <= s[k]

InvalidPhaseSwallowed == Raise("ValueError", 239)
InvalidPhase == Raise("Exception", 239)
NoPhysicalRoot == Raise("ValueError", 242)

\* Lines 234-239: the phase's root, None when there is none, or the raise.
SelectZ(phase, positive) ==
    IF phase = "v"
    THEN [outcome |-> Return,
          value |-> IF Len(positive) > 0 THEN Float(SeqMax(positive)) ELSE None]
    ELSE IF phase = "l"
    THEN [outcome |-> Return,
          value |-> IF Len(positive) > 0 THEN Float(SeqMin(positive)) ELSE None]
    ELSE [outcome |-> InvalidPhase, value |-> None]

\* Lines 241-244: None becomes the ValueError.
CheckZDefault(sel) ==
    IF sel.outcome # Return THEN sel
    ELSE IF sel.value = None THEN [outcome |-> Return, value |-> Float(1)]
    ELSE sel
CheckZ(sel) ==
    IF sel.outcome # Return THEN sel
    ELSE IF sel.value = None THEN [outcome |-> NoPhysicalRoot, value |-> None]
    ELSE sel

\* The element of a singleton.  {F(v) : v \in {e}} binds v to the value of
\* e, evaluated once, like a local variable assigned from a call.
Only(S) == CHOOSE v \in S : TRUE

GetCompressibilityFactor(c, phase, T, P, x, roots) ==
    Only({IF p.outcome # Return THEN p
          ELSE Only({Result(p.cache, z.outcome, z.value, p.params) :
                        z \in {CheckZ(SelectZ(phase, PositiveRoots(roots)))}}) :
          p \in {GetSRKParameters(c, T, P, x)}})

(***************************************************************************)
(* get_fugacity_coefs.  The value is the record of the quantities phi_log  *)
(* is computed from; np.log and np.exp are not evaluated.                  *)
(***************************************************************************)
\* np.divide(v, molar_composition @ v), per component            (milli)
RatioTo(x, v) ==
    Only({[k \in 1..Len(v) |-> IF d = 0 THEN 0 ELSE (v[k] * 1000) \div d] :
          d \in {Dot(x, v)}})

PhiLogTerms(x, params, Z_val) ==
    [kind |-> "phi",
     Z |-> Z_val,
     alpha_ratio |-> RatioTo(x, AttractionTerms(params.alpha)),
     b_ratio |-> RatioTo(x, CovolumeTerms),
     A_mix |-> params.A_mix,
     B_mix |-> params.B_mix]

GetFugacityCoefs(c, T, P, x, roots) ==
    Only({IF p.outcome # Return THEN p
          ELSE Only({IF z.outcome # Return THEN z
                     ELSE Result(z.cache, Return,
                                 PhiLogTerms(x, p.value, z.value.v), p.params) :
                     z \in {GetCompressibilityFactor(p.cache, "v", T, P, x, roots)}}) :
          p \in {GetSRKParameters(c, T, P, x)}})

(***************************************************************************)
(* GammaPhiPackage.                                                        *)
(***************************************************************************)
\* A result with the number of stability tests run and the value replaced.
Counted(r, value, count) ==
    [cache |-> r.cache, outcome |-> r.outcome, value |-> value,
     params |-> r.params, stabilityCalls |-> count]

\* The fugacity coefficients are computed and dropped; the answer is True.
TPDStabilityTest(c, T, P, x, roots) ==
    Only({IF f.outcome # Return THEN Counted(f, f.value, 1)
          ELSE Counted(f, Bool(TRUE), 1) :
          f \in {GetFugacityCoefs(c, T, P, x, roots)}})

\* The stability test is run once and its answer dropped; the answer is None.
TPFlash(c, T, P, x, roots) ==
    Only({IF stable.outcome # Return THEN stable
          ELSE Counted(stable, None, stable.stabilityCalls) :
          stable \in {TPDStabilityTest(c, T, P, x, roots)}})

----------------------------------------------------------------------------
(***************************************************************************)
(* Inputs.                                                                 *)
(***************************************************************************)
Phases == {"v", "l", "g"}

\* The thermodynamic states (T, P, x) the calls are made at.
States ==
    {<<T, P, x>> : T \in {300, 400}, P \in {1, 10},
                   x \in {<<7, 3>>, <<3, 7>>, <<10>>, <<5, 3, 2>>}}
FewStates ==
    {<<300, 1, <<7, 3>>>>, <<400, 10, <<3, 7>>>>, <<400, 1, <<7, 3>>>>,
     <<300, 1, <<10>>>>}
TwoStates == {<<300, 1, <<7, 3>>>>, <<300, 1, <<10>>>>}

Complex(re, im) == [re |-> re, im |-> im]
RootRe == -1..MaxRe
RootIm == {ImagTol \div 2, ImagTol}

\* np.roots of a real cubic: three real roots in any order, or a real root
\* and a conjugate pair.
RootTriples ==
    {<<Complex(a, 0), Complex(b, 0), Complex(d, 0)>> : a, b, d \in RootRe}
    \cup {<<Complex(a, 0), Complex(b, i), Complex(b, -i)>> :
             a, b \in RootRe, i \in RootIm}
    \cup {<<Complex(b, i), Complex(b, -i), Complex(a, 0)>> :
             a, b \in RootRe, i \in RootIm}
FewRoots ==
    {<<Complex(1, 0), Complex(2, 0), Complex(-1, 0)>>,
     <<Complex(-1, 0), Complex(1, ImagTol), Complex(1, -ImagTol)>>,
     <<Complex(0, 0), Complex(2, ImagTol \div 2), Complex(2, -(ImagTol \div 2))>>}

----------------------------------------------------------------------------
(***************************************************************************)
(* Sequential use of one backend instance (instance 1).                    *)
(***************************************************************************)
NoCall ==
    [op |-> "none", phase |-> "-", T |-> 0, P |-> 0, x |-> <<>>, roots |-> <<>>,
     n |-> 0, outcome |-> Return, value |-> None, params |-> None,
     stabilityCalls |-> 0, before |-> EmptyDict]

\* The record of a completed call, with the backend's dict as the call found
\* it.  np.roots is called only once the parameters are there: a call that
\* fails before has no roots.
Completed(op, phase, s, roots, r) ==
    [op |-> op, phase |-> phase, T |-> s[1], P |-> s[2], x |-> s[3],
     roots |-> IF r.params = None THEN <<>> ELSE roots,
     n |-> 0, outcome |-> r.outcome, value |-> r.value,
     params |-> r.params, stabilityCalls |-> r.stabilityCalls,
     before |-> cache[1]]

ParametersCall(states) ==
    \E s \in states :
        \E r \in {GetSRKParameters(cache[1], s[1], s[2], s[3])} :
            /\ cache' = [cache EXCEPT ![1] = r.cache]
            /\ call' = Completed("_get_SRK_parameters", "-", s, <<>>, r)
            /\ UNCHANGED <<stream, negativeTPD, instanceOf, pc, local>>

CompressibilityFactorCall(states, roots) ==
    \E s \in states, phase \in Phases, rs \in roots :
        \E r \in {GetCompressibilityFactor(cache[1], phase, s[1], s[2], s[3], rs)} :
            /\ cache' = [cache EXCEPT ![1] = r.cache]
            /\ call' = Completed("get_compressibility_factor", phase, s, rs, r)
            /\ UNCHANGED <<stream, negativeTPD, instanceOf, pc, local>>

FugacityCoefsCall(states, roots) ==
    \E s \in states, rs \in roots :
        \E r \in {GetFugacityCoefs(cache[1], s[1], s[2], s[3], rs)} :
            /\ cache' = [cache EXCEPT ![1] = r.cache]
            /\ call' = Completed("get_fugacity_coefs", "-", s, rs, r)
            /\ UNCHANGED <<stream, negativeTPD, instanceOf, pc, local>>

StabilityTestCall(states, roots) ==
    \E s \in states, rs \in roots :
        \E r \in {TPDStabilityTest(cache[1], s[1], s[2], s[3], rs)} :
            /\ cache' = [cache EXCEPT ![1] = r.cache]
            /\ call' = Completed("_TPD_stability_test", "-", s, rs, r)
            /\ UNCHANGED <<stream, negativeTPD, instanceOf, pc, local>>

TPFlashCall(states, roots) ==
    \E s \in states, rs \in roots :
        \E r \in {TPFlash(cache[1], s[1], s[2], s[3], rs)} :
            /\ cache' = [cache EXCEPT ![1] = r.cache]
            /\ call' = Completed("TP_flash", "-", s, rs, r)
            /\ UNCHANGED <<stream, negativeTPD, instanceOf, pc, local>>

Init ==
    /\ cache = [i \in 1..NumThreads |-> EmptyDict]
    /\ call = NoCall
    /\ stream = NoStream
    /\ negativeTPD = {}
    /\ instanceOf = [t \in 1..NumThreads |-> 1]
    /\ pc = [t \in 1..NumThreads |-> "idle"]
    /\ local = [t \in 1..NumThreads |-> None]

\* The backend at many states with few root triples.
Next ==
    \/ ParametersCall(States)
    \/ CompressibilityFactorCall(States, FewRoots)
    \/ FugacityCoefsCall(States, FewRoots)

Spec == Init /\ [][Next]_vars

\* The cubic solver at two states with every root triple.
NextRoots == CompressibilityFactorCall(TwoStates, RootTriples)

SpecRoots == Init /\ [][NextRoots]_vars

----------------------------------------------------------------------------
(***************************************************************************)
(* GammaPhiPackage: the stability test and the flash, at states whose      *)
(* tangent-plane distances are fixed by nature (negativeTPD).              *)
(***************************************************************************)
\* The states at which both mixing-rule arrays and the composition agree.
MixtureStates == {s \in FewStates : Len(s[3]) = NumComponents}

\* What nature may hold: any set of mixture states can be the set at which
\* some trial phase has a negative tangent-plane distance.  The code never
\* computes the distance; the set is what its answer is compared with.
TrialPhaseFacts == SUBSET MixtureStates

InitFlash ==
    /\ cache = [i \in 1..NumThreads |-> EmptyDict]
    /\ call = NoCall
    /\ stream = NoStream
    /\ negativeTPD \in TrialPhaseFacts
    /\ instanceOf = [t \in 1..NumThreads |-> 1]
    /\ pc = [t \in 1..NumThreads |-> "idle"]
    /\ local = [t \in 1..NumThreads |-> None]

NextFlash ==
    \/ StabilityTestCall(FewStates, FewRoots)
    \/ TPFlashCall(FewStates, FewRoots)

SpecFlash == InitFlash /\ [][NextFlash]_vars

----------------------------------------------------------------------------
(***************************************************************************)
(* Stream (core.py).  A mole fraction is c/100 + e*1e-13 with |e| < 1e9,   *)
(* so that 1e-12, 1e-6 and 0.05 are all exact.                             *)
(***************************************************************************)
Fraction(c, e) == [c |-> c, e |-> e]

RECURSIVE SumFrom(_, _)
SumFrom(comp, k) ==
    IF k > Len(comp) THEN Fraction(0, 0)
    ELSE LET rest == SumFrom(comp, k + 1)
         IN  Fraction(comp[k].c + rest.c, comp[k].e + rest.e)

\* np.sum(self.molar_composition)
StreamSum(comp) == SumFrom(comp, 1)

Abs(v) == IF v < 0 THEN -v ELSE v

\* np.isclose(sum, 1.0, atol=1e-12): |sum - 1.0| <= atol + rtol * |1.0|, with
\* numpy's default rtol.  A sum whose hundredths differ from 100 is off by
\* 1e-2 - |e|*1e-13 or more, beyond the threshold.
IsCloseToOne(sum) == sum.c = 100 /\ Abs(sum.e) <= AtolUnits + RtolUnits

\* (self.molar_composition < -1e-12).any()
HasNegativeEntry(comp) ==
    \E k \in 1..Len(comp) :
        comp[k].c < 0 \/ (comp[k].c = 0 /\ comp[k].e < -NegTolUnits)

PostInit(comp, n) ==
    IF ~IsCloseToOne(StreamSum(comp)) THEN Raise("ValueError", 20)
    ELSE IF HasNegativeEntry(comp) THEN Raise("ValueError", 24)
    ELSE IF Len(comp) # n THEN Raise("ValueError", 28)
    ELSE Return

StreamFractions ==
    {Fraction(70, 0), Fraction(30, 0), Fraction(35, 0), Fraction(100, 0),
     Fraction(30, 1), Fraction(30, AtolUnits + 1), Fraction(30, 10000000),
     Fraction(30, AtolUnits + RtolUnits), Fraction(30, AtolUnits + RtolUnits + 1),
     Fraction(0, -5), Fraction(0, -10000000)}

StreamCompositions ==
    UNION {[1..len -> StreamFractions] : len \in 1..StreamMaxLen}

StreamCall(op, comp, n, outcome, value) ==
    [NoCall EXCEPT !.op = op, !.x = comp, !.n = n, !.outcome = outcome,
                   !.value = value]

\* Stream(...): the dataclass __init__ followed by __post_init__.
StreamConstruct ==
    \E comp \in StreamCompositions, n \in 1..StreamMaxLen :
        LET outcome == PostInit(comp, n)
        IN  /\ stream' = IF outcome = Return
                         THEN [kind |-> "Stream", molar_composition |-> comp,
                               components |-> n]
                         ELSE stream
            /\ call' = StreamCall("Stream", comp, n, outcome, None)
            /\ UNCHANGED <<cache, negativeTPD, instanceOf, pc, local>>

\* The parameters of GammaPhiPackage.TP_flash and the keywords
\* Stream.vapour_fraction passes to it.
TPFlashParameters == {"temperature_K", "pressure_Pa", "molar_composition"}
VapourFractionKeywords ==
    {"pressure_Pa", "temperature_K", "components", "molar_composition"}

\* The attributes of a Stream: its dataclass fields.
StreamAttributes ==
    {"pressure_Pa", "temperature_K", "components", "molar_composition",
     "molar_flow_mol_s", "property_package_backend"}

StreamMethod(op, outcome, value) ==
    /\ stream.kind = "Stream"
    /\ call' = StreamCall(op, stream.molar_composition, stream.components,
                          outcome, value)
    /\ UNCHANGED <<cache, stream, negativeTPD, instanceOf, pc, local>>

\* Stream.vapour_fraction: the call of TP_flash binds its keywords first;
\* past it the method returns its placeholder 0.0.
VapourFraction ==
    IF VapourFractionKeywords \subseteq TPFlashParameters
    THEN StreamMethod("vapour_fraction", Return, Float(0))
    ELSE StreamMethod("vapour_fraction", Raise("TypeError", 32), None)

\* Stream.compressibility_factor and Stream.density_SI read self.backend.
StreamCompressibilityFactor ==
    IF "backend" \in StreamAttributes
    THEN StreamMethod("compressibility_factor", Return, Float(1))
    ELSE StreamMethod("compressibility_factor", Raise("AttributeError", 42), None)

StreamDensity ==
    IF "backend" \in StreamAttributes
    THEN StreamMethod("density_SI", Return, Float(1))
    ELSE StreamMethod("density_SI", Raise("AttributeError", 46), None)

NextStream ==
    \/ StreamConstruct
    \/ VapourFraction
    \/ StreamCompressibilityFactor
    \/ StreamDensity

SpecStream == Init /\ [][NextStream]_vars

----------------------------------------------------------------------------
(***************************************************************************)
(* Threads in _get_SRK_parameters.  A thread switch can fall between any   *)
(* two statements: the membership test (line 177), the cached read (line   *)
(* 178), the computation (lines 180-208) and the replacement of the dict   *)
(* (line 210) are separate steps.  Either every thread calls instance 1,   *)
(* or thread t calls its own instance t.                                   *)
(***************************************************************************)
Threads == 1..NumThreads

ThreadStates == {<<300, 1, <<7, 3>>>>, <<400, 10, <<3, 7>>>>, <<300, 1, <<10>>>>}

Locals(s, params, outcome, value) ==
    [s |-> s, params |-> params, outcome |-> outcome, value |-> value]

InitThreads ==
    /\ cache = [i \in 1..NumThreads |-> EmptyDict]
    /\ call = NoCall
    /\ stream = NoStream
    /\ negativeTPD = {}
    /\ instanceOf \in {[t \in Threads |-> 1], [t \in Threads |-> t]}
    /\ pc = [t \in Threads |-> "idle"]
    /\ local = [t \in Threads |-> None]

\* Line 175: the call is entered and cache_key built.
Enter(t) ==
    /\ pc[t] \in {"idle", "done"}
    /\ \E s \in ThreadStates :
          local' = [local EXCEPT ![t] = Locals(s, None, Return, None)]
    /\ pc' = [pc EXCEPT ![t] = "test"]
    /\ UNCHANGED <<cache, call, stream, negativeTPD, instanceOf>>

\* Line 177: if cache_key in self._cache
Test(t) ==
    /\ pc[t] = "test"
    /\ pc' = [pc EXCEPT ![t] =
                 IF CacheHit(cache[instanceOf[t]],
                             CacheKey(local[t].s[1], local[t].s[2], local[t].s[3]))
                 THEN "read" ELSE "compute"]
    /\ UNCHANGED <<cache, call, stream, negativeTPD, instanceOf, local>>

\* Line 178: return self._cache[cache_key]
Read(t) ==
    /\ pc[t] = "read"
    /\ \E c \in {cache[instanceOf[t]]},
          key \in {CacheKey(local[t].s[1], local[t].s[2], local[t].s[3])} :
          local' = [local EXCEPT ![t] =
                       IF key \in DOMAIN c
                       THEN Locals(local[t].s, c[key], Return, c[key])
                       ELSE Locals(local[t].s, None, Raise("KeyError", 178), None)]
    /\ pc' = [pc EXCEPT ![t] = "done"]
    /\ UNCHANGED <<cache, call, stream, negativeTPD, instanceOf>>

\* Lines 180-208: the parameters are computed into the local params.
Compute(t) ==
    /\ pc[t] = "compute"
    /\ \E s \in {local[t].s} :
          IF Len(s[3]) > 1 /\ Len(s[3]) = NumComponents
          THEN /\ local' = [local EXCEPT ![t] =
                               Locals(s, SRKParams(s[1], s[2], s[3]), Return, None)]
               /\ pc' = [pc EXCEPT ![t] = "store"]
          ELSE /\ local' = [local EXCEPT ![t] =
                               Locals(s, None,
                                      IF Len(s[3]) > 1 THEN MatmulMismatch
                                                       ELSE UnboundAlpha,
                                      None)]
               /\ pc' = [pc EXCEPT ![t] = "done"]
    /\ UNCHANGED <<cache, call, stream, negativeTPD, instanceOf>>

\* Lines 210-211: self._cache = {cache_key: params}; return params
Store(t) ==
    /\ pc[t] = "store"
    /\ cache' = [cache EXCEPT ![instanceOf[t]] =
                    StoreEntry(@, CacheKey(local[t].s[1], local[t].s[2], local[t].s[3]),
                               local[t].params)]
    /\ local' = [local EXCEPT ![t] =
                    Locals(local[t].s, local[t].params, Return, local[t].params)]
    /\ pc' = [pc EXCEPT ![t] = "done"]
    /\ UNCHANGED <<call, stream, negativeTPD, instanceOf>>

NextThreads ==
    \E t \in Threads : Enter(t) \/ Test(t) \/ Read(t) \/ Compute(t) \/ Store(t)

SpecThreads == InitThreads /\ [][NextThreads]_vars

----------------------------------------------------------------------------
(***************************************************************************)
(* The claims.                                                             *)
(***************************************************************************)
BackendOps == {"_get_SRK_parameters", "get_compressibility_factor", "get_fugacity_coefs"}

CallKey == <<call.T, call.P, call.x>>

\* The real parts the solver retains: imaginary part within 1e-10 of zero,
\* real part strictly positive.
Retained ==
    {call.roots[k].re : k \in {j \in 1..Len(call.roots) :
        /\ call.roots[j].im < ImagTol
        /\ call.roots[j].im > -ImagTol
        /\ call.roots[j].re > 0}}

SolvedCubic == call.op = "get_compressibility_factor" /\ call.roots # <<>>

\* C1: whenever get_compressibility_factor returns, the phase is 'v' or 'l'
\* and the value is a retained root (real within 1e-10, strictly positive):
\* the largest of them for 'v', the smallest of them for 'l'.
C1_RootSelection ==
    (SolvedCubic /\ call.outcome = Return) =>
        /\ call.phase \in {"v", "l"}
        /\ call.value.kind = "float"
        /\ call.value.v \in Retained
        /\ call.value.v > 0
        /\ call.phase = "v" => \A z \in Retained : z <= call.value.v
        /\ call.phase = "l" => \A z \in Retained : call.value.v <= z

\* A liquid root chosen among several retained roots, next to a root that is
\* not positive and so is dropped.
C1_Witness ==
    /\ SolvedCubic /\ call.outcome = Return /\ call.phase = "l"
    /\ Cardinality(Retained) >= 2
    /\ \E k \in 1..Len(call.roots) : call.roots[k].re <= 0

\* C2: the dict never holds more than one entry; after a call that obtained
\* parameters it holds exactly the call's key, mapped to the parameters the
\* call obtained; a call with the cached key leaves the dict as it was, and a
\* call with another key replaces whatever was there.
C2_SingleEntryCache ==
    /\ Cardinality(DOMAIN cache[1]) <= 1
    /\ (call.op \in BackendOps /\ call.params # None) =>
          /\ DOMAIN cache[1] = {CallKey}
          /\ cache[1][CallKey] = call.params
          /\ CallKey \in DOMAIN call.before => cache[1] = call.before
    /\ (call.op \in BackendOps /\ call.params = None) => cache[1] = call.before

\* A call with a new key displaces the entry of another key.
C2_Witness ==
    /\ call.op \in BackendOps /\ call.params # None
    /\ DOMAIN call.before # {}
    /\ CallKey \notin DOMAIN call.before
    /\ DOMAIN cache[1] = {CallKey}

\* What a backend with an empty dict returns for the call's (T, P, x).
FreshParameters == GetSRKParameters(EmptyDict, call.T, call.P, call.x).value

\* C3: the parameters a call obtains, on a hit or a miss and after any
\* history of calls, are those a fresh backend returns for the same
\* (T, P, x).
C3_CacheTransparent ==
    (call.op \in BackendOps /\ call.params # None) =>
        /\ call.params.alpha = FreshParameters.alpha
        /\ call.params.A_mix = FreshParameters.A_mix
        /\ call.params.B_mix = FreshParameters.B_mix
        /\ call.op = "_get_SRK_parameters" => call.value = FreshParameters

\* A hit: the parameters came out of the dict.
C3_Witness ==
    /\ call.op = "_get_SRK_parameters" /\ call.outcome = Return
    /\ CallKey \in DOMAIN call.before
    /\ call.value = FreshParameters

\* The sum of the composition differs from 1 by more than 1e-12.
SumOffByMoreThanTolerance ==
    \/ StreamSum(call.x).c # 100
    \/ StreamSum(call.x).e > AtolUnits
    \/ StreamSum(call.x).e < -AtolUnits

\* C4: constructing a Stream fails with the validation error whenever the
\* composition's sum differs from 1 by more than 1e-12, and the sum check
\* passes whenever it is within 1e-12.
C4_SumToleranceEnforced ==
    call.op = "Stream" =>
        /\ SumOffByMoreThanTolerance => call.outcome.type = "ValueError"
        /\ ~SumOffByMoreThanTolerance => call.outcome # Raise("ValueError", 20)

\* C5: a call with a single-component composition fails with the
\* precondition error, returns nothing and leaves the dict unchanged.
C5_SingleComponentPrecondition ==
    (call.op \in BackendOps /\ Len(call.x) = 1) =>
        /\ call.outcome.type = "PreconditionError"
        /\ call.value = None
        /\ cache[1] = call.before

\* C6: for phase 'v' or 'l', a cubic with no retained root makes the call
\* raise the no-physical-root ValueError and return nothing; a call that
\* returns, returns a retained root.
C6_NoPhysicalRoot ==
    (SolvedCubic /\ call.phase \in {"v", "l"}) =>
        /\ Retained = {} => (call.outcome = Raise("ValueError", 242) /\ call.value = None)
        /\ call.outcome = Return => (call.value.kind = "float" /\ call.value.v \in Retained)

\* No retained root, although a root has a positive real part: its imaginary
\* part is not within the tolerance.
C6_Witness ==
    /\ SolvedCubic /\ call.phase \in {"v", "l"}
    /\ Retained = {}
    /\ \E k \in 1..Len(call.roots) : call.roots[k].re > 0
    /\ call.outcome.type = "ValueError"

\* C7: for a phase other than 'v' and 'l' the call raises the invalid-phase
\* exception of line 239, of another type than the no-physical-root
\* ValueError, whether or not the cubic has a retained root.
C7_InvalidPhase ==
    (SolvedCubic /\ call.phase \notin {"v", "l"}) =>
        /\ call.outcome = Raise("Exception", 239)
        /\ call.outcome.type # "ValueError"
        /\ call.value = None

\* An invalid phase on a cubic with no retained root: the phase error wins.
C7_Witness ==
    /\ SolvedCubic /\ call.phase \notin {"v", "l"}
    /\ Retained = {}
    /\ call.outcome.type = "Exception"

\* C8: TP_flash runs the stability test once and, at a stable state, returns
\* a single-phase result whose vapour fraction is 0 or 1.
C8_FlashSinglePhase ==
    (call.op = "TP_flash" /\ call.outcome = Return /\ CallKey \notin negativeTPD) =>
        /\ call.stabilityCalls = 1
        /\ call.value # None
        /\ call.value.kind = "phases"
        /\ call.value.vapour_fraction \in {0, 1}

\* C9: the stability test answers true only at a state where no trial phase
\* has a negative tangent-plane distance.
C9_StableOnlyIfNoNegativeTPD ==
    (call.op = "_TPD_stability_test" /\ call.outcome = Return /\ call.value = Bool(TRUE)) =>
        CallKey \notin negativeTPD

Shared(t) == \E u \in Threads : u # t /\ instanceOf[u] = instanceOf[t]

\* C10: a call's cached read fails (KeyError) only on an instance shared
\* with another thread; on its own instance every call that returns, returns
\* the parameters of its own key, and so does every call that returns on a
\* shared instance.
C10_LookupFailsOnlyWhenShared ==
    \A t \in Threads :
        pc[t] = "done" =>
            /\ local[t].outcome.type = "KeyError" => Shared(t)
            /\ local[t].outcome = Return =>
                  local[t].value = SRKParams(local[t].s[1], local[t].s[2], local[t].s[3])

\* Two threads on one instance: one found its key in the dict and, the other
\* having replaced the dict with another key's entry, fails the read.
C10_Witness ==
    \E t, u \in Threads :
        /\ u # t /\ instanceOf[u] = instanceOf[t]
        /\ pc[t] = "done" /\ local[t].outcome = Raise("KeyError", 178)
        /\ pc[u] = "done" /\ local[u].outcome = Return
        /\ local[u].s # local[t].s
        /\ DOMAIN cache[instanceOf[t]] = {local[u].s}
=============================================================================
